---- MODULE Spec2Model ----
(***************************************************************************)
(* namecheap-ddns (src/main.rs): the polling loop of main, the IP resolver *)
(* get_current_ip, the update client update_namecheap and the response     *)
(* interpreter parse_namecheap_response.                                   *)
(*                                                                         *)
(* Strings are sequences of text units.  A unit is one character, except   *)
(* that a string literal of the source and an opaque word of a message are *)
(* kept as one unit.  Whitespace, digits, '.', ',', ';' and '+' are always *)
(* single characters, so trimming, splitting, number parsing and joining   *)
(* work on them as the code does.  Option<T> is <<>> (None) or <<x>>.      *)
(***************************************************************************)
EXTENDS Integers, Sequences, FiniteSets, TLC

\* ---------------------------------------------------------------- bounds
MaxProviders == 2
MaxHosts == 2
MaxEvents == 3
MaxElements == 3

\* ------------------------------------------------------ program constants
DiscoveryPreviewLen == 80
UpdatePreviewLen == 160

\* ---------------------------------------------------------- text helpers
Whitespace == {" ", "\n", "\t"}
\* "U+00E9" is the two-byte character e-acute
MultiByte == {"U+00E9"}
Digits == <<"0", "1", "2", "3", "4", "5", "6", "7", "8", "9">>
DigitSet == {Digits[i] : i \in 1..10}
DigitVal(c) == (CHOOSE i \in 1..10 : Digits[i] = c) - 1

\* str::len counts the bytes of the UTF-8 encoding: one for a unit, one more
\* for a two-byte character
WidePositions(s) == {i \in 1..Len(s) : s[i] \in MultiByte}
ByteLen(s) == Len(s) + Cardinality(WidePositions(s))

Min(a, b) == IF a <= b THEN a ELSE b

\* str::is_char_boundary(n): n is 0, the length of the string, or the byte
\* offset at which a character starts, that is the byte length of a prefix
IsCharBoundary(s, n) ==
    LET wide == WidePositions(s)
    IN \E k \in 0..Len(s) : k + Cardinality({i \in wide : i <= k}) = n

\* str::trim_start, str::trim_end, str::trim
TrimStart(s) ==
    LET rest == {i \in 1..Len(s) : s[i] \notin Whitespace}
    IN IF rest = {} THEN <<>>
       ELSE SubSeq(s, CHOOSE i \in rest : \A j \in rest : i <= j, Len(s))

TrimEnd(s) ==
    LET rest == {i \in 1..Len(s) : s[i] \notin Whitespace}
    IN IF rest = {} THEN <<>>
       ELSE SubSeq(s, 1, CHOOSE i \in rest : \A j \in rest : i >= j)

Trim(s) == TrimEnd(TrimStart(s))

\* str::split(sep) for a non-empty separator: the pieces between the
\* matches of sep found from left to right, always at least one piece
Split(s, sep) ==
    LET n == Len(sep)
        from[i \in 1..(Len(s) + 1)] ==
            LET hits == {j \in i..(Len(s) - n + 1) : SubSeq(s, j, j + n - 1) = sep}
            IN IF hits = {}
               THEN <<SubSeq(s, i, Len(s))>>
               ELSE LET j == CHOOSE j \in hits : \A k \in hits : j <= k
                    IN <<SubSeq(s, i, j - 1)>> \o from[j + n]
    IN from[1]

\* [String]::join(sep)
Join(list, sep) ==
    LET upto[k \in 0..Len(list)] ==
            IF k = 0 THEN <<>>
            ELSE IF k = 1 THEN list[1]
            ELSE upto[k - 1] \o sep \o list[k]
    IN upto[Len(list)]

DecimalValue(s) ==
    LET upto[k \in 0..Len(s)] ==
            IF k = 0 THEN 0 ELSE upto[k - 1] * 10 + DigitVal(s[k])
    IN upto[Len(s)]

\* ------------------------------------------------------------ IP validator
\* One group of Ipv4Addr::from_str: 1 to 3 decimal digits, no leading zero
\* on a group of more than one digit, value at most 255.
IsOctet(p) ==
    /\ Len(p) \in 1..3
    /\ \A i \in 1..Len(p) : p[i] \in DigitSet
    /\ (Len(p) > 1 => p[1] # "0")
    /\ DecimalValue(p) <= 255

looks_like_ipv4(s) ==
    LET parts == Split(s, <<".">>)
    IN Len(parts) = 4 /\ \A i \in 1..4 : IsOctet(parts[i])

\* ------------------------------------------------------------ configuration
\* Config::from_env: split(','), trim each piece, drop the empty ones
TrimNonEmpty(pieces) ==
    SelectSeq([i \in 1..Len(pieces) |-> Trim(pieces[i])], LAMBDA t : t # <<>>)

from_env_list(raw) == TrimNonEmpty(Split(raw, <<",">>))

\* values of NC_IP_PROVIDERS and NC_HOSTS: comma-separated lists of at most
\* n pieces drawn from a few raw pieces
SeqsUpTo(S, n) == UNION {[1..k -> S] : k \in 0..n}

RawProviderPieces == {<<>>, <<"a">>, <<" ", "b">>}
RawHostPieces == {<<"w">>, <<"@", " ">>}
EnvValues(pieces, n) ==
    {Join(l, <<",">>) : l \in SeqsUpTo(pieces, n)}

\* ------------------------------------------------- response interpreter
\* The quick_xml reader hands the body to the interpreter as a sequence of
\* events, ended by Eof or cut short by an Err.  A document is that
\* sequence without the final Eof.
\*   Start: name is the tag name          End: any end tag
\*   Text:  content is <<s>> when unescape() gives s, <<>> when it fails
\*   Other: Empty, CData, Comment, Decl, PI, DocType
\*   Err:   a reader error, name is its description
Ev(t, n, c) == [type |-> t, name |-> n, content |-> c]
Start(n) == Ev("Start", n, <<>>)
End == Ev("End", <<>>, <<>>)
Text(s) == Ev("Text", <<>>, <<s>>)
TextUnescapeErr == Ev("Text", <<>>, <<>>)
Other == Ev("Other", <<>>, <<>>)
ReaderErr(d) == Ev("Err", <<d>>, <<>>)

ErrCountTag == <<"Err", "Count">>
Err1Tag == <<"Err", "1">>
Err2Tag == <<"Err", "2">>
DescriptionTag == <<"Description">>
ResponseStringTag == <<"ResponseString">>

starts_with(t, prefix) ==
    Len(t) >= Len(prefix) /\ SubSeq(t, 1, Len(prefix)) = prefix

\* A u32 is held as its decimal numeral without leading zeros (the integers
\* of TLC stop below 2^32): U32Max is u32::MAX.
U32Max == <<"4", "2", "9", "4", "9", "6", "7", "2", "9", "5">>
Zero == <<"0">>

StripLeadingZeros(d) ==
    LET rest == {i \in 1..Len(d) : d[i] # "0"}
    IN IF rest = {} THEN Zero
       ELSE SubSeq(d, CHOOSE i \in rest : \A j \in rest : i <= j, Len(d))

\* a <= b for numerals without leading zeros
NumeralLeq(a, b) ==
    \/ Len(a) < Len(b)
    \/ /\ Len(a) = Len(b)
       /\ \/ a = b
          \/ \E i \in 1..Len(a) :
                /\ SubSeq(a, 1, i - 1) = SubSeq(b, 1, i - 1)
                /\ DigitVal(a[i]) < DigitVal(b[i])

\* str::parse::<u32>: an optional '+', then one or more decimal digits whose
\* value fits 32 bits; <<>> when the parse fails
ParseU32(text) ==
    LET digits == IF text # <<>> /\ Head(text) = "+" THEN Tail(text) ELSE text
    IN IF /\ digits # <<>>
          /\ \A i \in 1..Len(digits) : digits[i] \in DigitSet
          /\ NumeralLeq(StripLeadingZeros(digits), U32Max)
       THEN <<StripLeadingZeros(digits)>>
       ELSE <<>>

InitScan ==
    [current_tag |-> <<>>, err_count |-> <<>>, errors |-> <<>>,
     descriptions |-> <<>>, response_strings |-> <<>>]

OnStart(st, e) == [st EXCEPT !.current_tag = <<e.name>>]

\* faulty variant of OnText: an ErrCount text that is not a u32 falls
\* through to the arm of the tags that start with "Err"
OnTextCountFallsThrough(st, e) ==
    IF st.current_tag = <<>> THEN st
    ELSE LET tag == st.current_tag[1]
             text == Trim(IF e.content = <<>> THEN <<>> ELSE e.content[1])
         IN IF text = <<>> THEN st
            ELSE IF tag = ErrCountTag /\ ParseU32(text) # <<>>
                 THEN [st EXCEPT !.err_count = ParseU32(text)]
            ELSE IF starts_with(tag, <<"Err">>)
                 THEN [st EXCEPT !.errors = Append(@, text)]
            ELSE IF tag = DescriptionTag
                 THEN [st EXCEPT !.descriptions = Append(@, text)]
            ELSE IF tag = ResponseStringTag
                 THEN [st EXCEPT !.response_strings = Append(@, text)]
            ELSE st

OnText(st, e) ==
    IF st.current_tag = <<>> THEN st
    ELSE LET tag == st.current_tag[1]
             text == Trim(IF e.content = <<>> THEN <<>> ELSE e.content[1])
         IN IF text = <<>> THEN st
            ELSE IF tag = ErrCountTag
                 THEN (IF ParseU32(text) # <<>>
                       THEN [st EXCEPT !.err_count = ParseU32(text)]
                       ELSE st)
            ELSE IF starts_with(tag, <<"Err">>)
                 THEN [st EXCEPT !.errors = Append(@, text)]
            ELSE IF tag = DescriptionTag
                 THEN [st EXCEPT !.descriptions = Append(@, text)]
            ELSE IF tag = ResponseStringTag
                 THEN [st EXCEPT !.response_strings = Append(@, text)]
            ELSE st

\* faulty variant of OnEnd: the cursor survives the end tag
OnEndKeepsTag(st) == st

OnEnd(st) == [st EXCEPT !.current_tag = <<>>]

\* Result<(), String>
Ok == [ok |-> TRUE, msg |-> <<>>]
Failure(m) == [ok |-> FALSE, msg |-> m]

MessageSeparator == <<";", " ">>
ParseErrorPrefix == "Failed to parse Namecheap XML: "
NoMessagesPrefix == "Namecheap reported ErrCount="
NoMessagesSuffix == " but no error messages were found"

\* faulty variant of OnErr: the error is dropped and the scan so far is
\* classified
OnErrRecovers(st, e) ==
    IF st.err_count \in {<<>>, <<Zero>>} THEN Ok
    ELSE Failure(Join(st.errors \o st.descriptions \o st.response_strings,
                      MessageSeparator))

OnErr(st, e) == Failure(<<ParseErrorPrefix>> \o e.name)

\* faulty variant of Finish: collected messages alone make a Failure
FinishMessagesDecide(st) ==
    LET count == IF st.err_count = <<>> THEN Zero ELSE st.err_count[1]
        messages == st.errors \o st.descriptions \o st.response_strings
    IN IF count = Zero /\ messages = <<>> THEN Ok
       ELSE IF messages = <<>>
            THEN Failure(<<NoMessagesPrefix>> \o count \o <<NoMessagesSuffix>>)
            ELSE Failure(Join(messages, MessageSeparator))

\* faulty variant of Finish: the descriptions are reported before the errors
FinishDescriptionsFirst(st) ==
    LET count == IF st.err_count = <<>> THEN Zero ELSE st.err_count[1]
        messages == st.descriptions \o st.errors \o st.response_strings
    IN IF count = Zero THEN Ok
       ELSE IF messages = <<>>
            THEN Failure(<<NoMessagesPrefix>> \o count \o <<NoMessagesSuffix>>)
            ELSE Failure(Join(messages, MessageSeparator))

\* faulty variant of Finish: no message is synthesized when none was
\* collected
FinishNoSynthesis(st) ==
    LET count == IF st.err_count = <<>> THEN Zero ELSE st.err_count[1]
        messages == st.errors \o st.descriptions \o st.response_strings
    IN IF count = Zero THEN Ok
       ELSE Failure(Join(messages, MessageSeparator))

\* after the loop: lines 157-177
Finish(st) ==
    LET count == IF st.err_count = <<>> THEN Zero ELSE st.err_count[1]
        messages == st.errors \o st.descriptions \o st.response_strings
    IN IF count = Zero THEN Ok
       ELSE IF messages = <<>>
            THEN Failure(<<NoMessagesPrefix>> \o count
                         \o <<NoMessagesSuffix>>)
            ELSE Failure(Join(messages, MessageSeparator))

ScanEvent(st, e) ==
    IF e.type = "Start" THEN OnStart(st, e)
    ELSE IF e.type = "Text" THEN OnText(st, e)
    ELSE IF e.type = "End" THEN OnEnd(st)
    ELSE st

\* the state of the scan after the first n events
ScanPrefix(doc, n) ==
    LET after[i \in 0..n] ==
            IF i = 0 THEN InitScan ELSE ScanEvent(after[i - 1], doc[i])
    IN after[n]

\* the loop runs to the first Err, or to Eof
parse_namecheap_response(doc) ==
    LET errs == {i \in 1..Len(doc) : doc[i].type = "Err"}
    IN IF errs = {}
       THEN Finish(ScanPrefix(doc, Len(doc)))
       ELSE LET k == CHOOSE k \in errs : \A j \in errs : k <= j
            IN OnErr(ScanPrefix(doc, k - 1), doc[k])

\* ------------------------------------------------------------ environment
Pad(n) == [i \in 1..n |-> "x"]

IpA == <<"1", ".", "1", ".", "1", ".", "1">>
IpB == <<"2", ".", "2", ".", "2", ".", "2">>

\* bodies a discovery endpoint may answer with
DiscoveryBodies ==
    { IpA,
      IpB \o <<"\n">>,
      <<" ">> \o IpA \o <<"\n">>,
      <<>>,
      <<"1", ".", "1", ".", "1">>,
      <<"2", "5", "6", ".", "1", ".", "1", ".", "1">>,
      <<"0", "1", ".", "1", ".", "1", ".", "1">>,
      <<":", ":", "1">>,
      Pad(DiscoveryPreviewLen + 1),
      Pad(DiscoveryPreviewLen - 1) \o <<"U+00E9">> }

StatusCodes == {200, 500}
is_success(status) == status \in 200..299

\* outcome of client.get(url).send() followed by resp.text(): send is "err"
\* when the request fails; body is <<>> when reading the body fails
HttpOutcome(send, status, body) ==
    [send |-> send, status |-> status, body |-> body]
HttpOutcomes(bodies) ==
    {HttpOutcome("err", 0, <<>>)}
    \cup {HttpOutcome("ok", c, <<>>) : c \in StatusCodes}
    \cup {HttpOutcome("ok", c, <<b>>) : c \in StatusCodes, b \in bodies}

\* documents of the update endpoint, as the reader's events
SuccessXml ==
    << Start(<<"interface-response">>),
       Start(<<"Command">>), Text(<<"SETDNSHOST">>), End,
       Start(ErrCountTag), Text(<<"0">>), End,
       Start(<<"Done">>), Text(<<"true">>), End,
       End >>
FailureXml ==
    << Start(<<"interface-response">>),
       Start(ErrCountTag), Text(<<"1">>), End,
       Start(<<"errors">>),
       Start(Err1Tag), Text(<<"Domain name not found">>), End,
       End,
       Start(<<"Done">>), Text(<<"true">>), End,
       End >>
MalformedXml ==
    << Start(<<"interface-response">>),
       Start(ErrCountTag), Text(<<"0">>), End,
       ReaderErr("unclosed tag") >>

\* a body of the update endpoint: the text (raw, for its length and its
\* character boundaries) and the events the reader makes of it (xml)
UpdateBody(doc, raw) == [xml |-> doc, raw |-> raw]
UpdateBodies ==
    { UpdateBody(SuccessXml, Pad(UpdatePreviewLen - 2)),
      UpdateBody(SuccessXml, Pad(UpdatePreviewLen + 1)),
      UpdateBody(SuccessXml, Pad(UpdatePreviewLen - 1) \o <<"U+00E9">>),
      UpdateBody(FailureXml, Pad(UpdatePreviewLen + 1)),
      UpdateBody(FailureXml, Pad(UpdatePreviewLen - 1) \o <<"U+00E9">>),
      UpdateBody(MalformedXml, Pad(UpdatePreviewLen - 2)) }

DiscoveryOutcomes == HttpOutcomes(DiscoveryBodies)
UpdateOutcomes == HttpOutcomes(UpdateBodies)

\* config.password, and the values that runs differing only in the
\* password give it
DefaultPassword == <<"s3cret">>
Passwords == {DefaultPassword, <<"p", "&", "w">>, <<"hunter", " ", "2">>}
\* config.domain
ConfigDomain == <<"example.com">>
NoLog == [p \in Passwords |-> <<>>]

\* /data/last_ip at start: no file, or what an earlier run or the operator
\* left there
InitialCaches == {<<>>, <<IpA>>, <<IpA \o <<"\n">>>>}

\* ------------------------------------------------------------------ state
VARIABLES
    ip_providers,   \* config.ip_providers
    hosts,          \* config.hosts
    pc,             \* position of main: "resolve", "read_cache", "update",
                    \* "sleep", "panicked", "killed"; "parse" when only
                    \* the interpreter runs, "call" when only update
                    \* calls run
    idx,            \* position of the for loop over providers or hosts
    contacted,      \* endpoints contacted by the running get_current_ip call
    ip_result,      \* "none", or how get_current_ip returned: "ok", "err"
    current_ip,     \* main's current_ip
    last_ip,        \* main's last_ip (trimmed)
    attempted,      \* update_namecheap calls made in this cycle
    cache,          \* content of /data/last_ip: <<>> no file, <<text>>
    writes,         \* fs::write calls made in this cycle
    failed_round,   \* history: <<ip>> while the cache holds what the round
                    \* for ip wrote after an update call of it had failed
    password,       \* config.password
    log,            \* for each password p, the records the last update call
                    \* logs in the run configured with p
    xml,            \* the document parse_namecheap_response scans
    pos,            \* index of the next event of the reader
    scan,           \* current_tag, err_count, errors, descriptions,
                    \* response_strings
    parse_result    \* <<>> while scanning, <<r>> once returned

loop_vars == <<ip_providers, hosts, pc, idx, contacted, ip_result, current_ip,
               last_ip, attempted, cache, writes, failed_round>>
parse_vars == <<xml, pos, scan, parse_result>>
call_vars == <<password, log>>
vars == <<ip_providers, hosts, pc, idx, contacted, ip_result, current_ip,
          last_ip, attempted, cache, writes, failed_round,
          xml, pos, scan, parse_result, password, log>>

ProviderLists ==
    {from_env_list(raw) : raw \in EnvValues(RawProviderPieces, MaxProviders)}
HostLists ==
    {from_env_list(raw) : raw \in EnvValues(RawHostPieces, MaxHosts)}

Init ==
    /\ ip_providers \in ProviderLists
    /\ hosts \in HostLists
    /\ pc = "resolve"
    /\ idx = 1
    /\ contacted = <<>>
    /\ ip_result = "none"
    /\ current_ip = <<>>
    /\ last_ip = <<>>
    /\ attempted = <<>>
    /\ cache \in InitialCaches
    /\ writes = 0
    /\ failed_round = <<>>
    /\ password = DefaultPassword
    /\ log = NoLog
    /\ xml = <<>>
    /\ pos = 0
    /\ scan = InitScan
    /\ parse_result = <<>>

\* ------------------------------------------------------------- IP resolver
\* the preview of line 80 can be taken
DiscoveryPreviewOk(text) ==
    IsCharBoundary(text, Min(ByteLen(text), DiscoveryPreviewLen))

\* the arm of the match of lines 72-90 that the outcome r of a request takes
DiscoveryKind(r) ==
    IF r.send = "err" THEN "send_err"
    ELSE IF ~is_success(r.status) THEN "bad_status"
    ELSE IF r.body = <<>> THEN "read_err"
    ELSE IF looks_like_ipv4(Trim(r.body[1])) THEN "valid"
    ELSE "invalid"

\* what the arm needs of r: the body and the ip of a valid answer, and
\* whether the preview of an invalid one can be sliced
DiscoveryAnswer(r) ==
    [kind |-> DiscoveryKind(r),
     body |-> IF DiscoveryKind(r) = "valid" THEN r.body[1] ELSE <<>>,
     ip |-> IF DiscoveryKind(r) = "valid" THEN Trim(r.body[1]) ELSE <<>>,
     preview_ok |-> DiscoveryKind(r) = "invalid" => DiscoveryPreviewOk(r.body[1])]

DiscoveryAnswers == {DiscoveryAnswer(r) : r \in DiscoveryOutcomes}

Contact(p, a) == [url |-> p, kind |-> a.kind, body |-> a.body]

\* one iteration of the for loop of get_current_ip
TryProvider ==
    /\ pc = "resolve"
    /\ idx <= Len(ip_providers)
    /\ LET p == ip_providers[idx]
       IN IF p = <<>>
          THEN /\ idx' = idx + 1
               /\ UNCHANGED <<pc, contacted, ip_result, current_ip>>
          ELSE \E a \in DiscoveryAnswers :
               /\ contacted' = Append(contacted, Contact(p, a))
               /\ IF a.kind = "read_err"
                  THEN \* resp.text().await? returns the error
                       /\ ip_result' = "err"
                       /\ pc' = "sleep"
                       /\ UNCHANGED <<idx, current_ip>>
                  ELSE IF a.kind = "valid"
                  THEN /\ ip_result' = "ok"
                       /\ current_ip' = a.ip
                       /\ pc' = "read_cache"
                       /\ UNCHANGED idx
                  ELSE IF a.kind = "invalid" /\ ~a.preview_ok
                  THEN \* the slice panics, the process aborts
                       /\ pc' = "panicked"
                       /\ UNCHANGED <<idx, ip_result, current_ip>>
                  ELSE \* a warning, then the next provider
                       /\ idx' = idx + 1
                       /\ UNCHANGED <<pc, ip_result, current_ip>>
    /\ UNCHANGED <<ip_providers, hosts, last_ip, attempted, cache, writes,
                   failed_round>>
    /\ UNCHANGED <<parse_vars, call_vars>>

\* line 92, and main's Err arm
ProvidersExhausted ==
    /\ pc = "resolve"
    /\ idx > Len(ip_providers)
    /\ ip_result' = "err"
    /\ pc' = "sleep"
    /\ UNCHANGED <<ip_providers, hosts, idx, contacted, current_ip, last_ip,
                   attempted, cache, writes, failed_round>>
    /\ UNCHANGED <<parse_vars, call_vars>>

\* ------------------------------------------------------------ polling loop
\* faulty variant of ReadCache: the update round runs whatever the
\* comparison says
ReadCacheAlwaysUpdates ==
    /\ pc = "read_cache"
    /\ \E content \in (IF cache = <<>> THEN {<<>>} ELSE {cache[1], <<>>}) :
          last_ip' = Trim(content)
    /\ pc' = "update"
    /\ idx' = 1
    /\ contacted' = <<>>
    /\ UNCHANGED <<ip_providers, hosts, ip_result, current_ip, attempted,
                   cache, writes, failed_round>>
    /\ UNCHANGED <<parse_vars, call_vars>>

\* faulty variant of ReadCache: a round that wrote the cache after a failed
\* update call is run again for the same address
ReadCacheRetriesFailedRound ==
    /\ pc = "read_cache"
    /\ \E content \in (IF cache = <<>> THEN {<<>>} ELSE {cache[1], <<>>}) :
          /\ last_ip' = Trim(content)
          /\ pc' = IF Trim(content) = current_ip
                      /\ failed_round # <<current_ip>>
                   THEN "sleep" ELSE "update"
    /\ idx' = 1
    /\ contacted' = <<>>
    /\ UNCHANGED <<ip_providers, hosts, ip_result, current_ip, attempted,
                   cache, writes, failed_round>>
    /\ UNCHANGED <<parse_vars, call_vars>>

\* lines 301-312: read the cache, trim, compare
ReadCache ==
    /\ pc = "read_cache"
    /\ \E content \in (IF cache = <<>> THEN {<<>>} ELSE {cache[1], <<>>}) :
          /\ last_ip' = Trim(content)
          /\ pc' = IF Trim(content) = current_ip THEN "sleep" ELSE "update"
    /\ idx' = 1
    /\ contacted' = <<>>
    /\ UNCHANGED <<ip_providers, hosts, ip_result, current_ip, attempted,
                   cache, writes, failed_round>>
    /\ UNCHANGED <<parse_vars, call_vars>>

UpdatePreviewOk(body) ==
    IsCharBoundary(body.raw, Min(ByteLen(body.raw), UpdatePreviewLen))

\* what one update_namecheap call does for the outcome r of its request
UpdateOutcome(r) ==
    IF r.send = "err" THEN "send_err"
    ELSE IF r.body = <<>> THEN "read_err"
    ELSE LET parsed == parse_namecheap_response(r.body[1].xml)
         IN IF parsed.ok
            THEN (IF UpdatePreviewOk(r.body[1]) THEN "success" ELSE "panic")
            ELSE IF parsed.msg[1] = ParseErrorPrefix THEN "malformed"
            ELSE "err_count"

UpdateResults == {UpdateOutcome(r) : r \in UpdateOutcomes}

\* the outcomes with which an update call has failed: an error returned to
\* main (lines 194, 196) or a Failure logged by the call (line 210)
FailedOutcomes == {"send_err", "read_err", "malformed", "err_count"}
SomeUpdateFailed ==
    \E i \in 1..Len(attempted) : attempted[i].outcome \in FailedOutcomes

\* faulty variant of UpdateHost: an error returned by update_namecheap ends
\* the round
UpdateHostStopsOnError ==
    /\ pc = "update"
    /\ idx <= Len(hosts)
    /\ \E o \in UpdateResults :
          /\ attempted' = Append(attempted, [host |-> hosts[idx], outcome |-> o])
          /\ IF o = "panic"
             THEN pc' = "panicked" /\ UNCHANGED idx
             ELSE IF o \in {"send_err", "read_err"}
             THEN pc' = "sleep" /\ UNCHANGED idx
             ELSE idx' = idx + 1 /\ UNCHANGED pc
    /\ UNCHANGED <<ip_providers, hosts, contacted, ip_result, current_ip,
                   last_ip, cache, writes, failed_round>>
    /\ UNCHANGED <<parse_vars, call_vars>>

\* one iteration of the for loop over config.hosts
UpdateHost ==
    /\ pc = "update"
    /\ idx <= Len(hosts)
    /\ \E o \in UpdateResults :
          /\ attempted' = Append(attempted, [host |-> hosts[idx], outcome |-> o])
          /\ IF o = "panic"
             THEN pc' = "panicked" /\ UNCHANGED idx
             ELSE idx' = idx + 1 /\ UNCHANGED pc
    /\ UNCHANGED <<ip_providers, hosts, contacted, ip_result, current_ip,
                   last_ip, cache, writes, failed_round>>
    /\ UNCHANGED <<parse_vars, call_vars>>

\* fs::write creates or truncates the file, then writes the bytes: it
\* succeeds, fails before touching the file, or fails after truncating it
\* with only part of the text written
WriteResults(old, text) ==
    {<<text>>, old} \cup {<<SubSeq(text, 1, k)>> : k \in 0..(Len(text) - 1)}

WriteCache ==
    /\ pc = "update"
    /\ idx > Len(hosts)
    /\ cache' \in WriteResults(cache, current_ip)
    /\ writes' = writes + 1
    /\ failed_round' =
          IF cache' = <<current_ip>>
          THEN (IF SomeUpdateFailed THEN <<current_ip>> ELSE <<>>)
          ELSE IF cache' = cache THEN failed_round ELSE <<>>
    /\ pc' = "sleep"
    /\ UNCHANGED <<ip_providers, hosts, idx, contacted, ip_result,
                   current_ip, last_ip, attempted>>
    /\ UNCHANGED <<parse_vars, call_vars>>

\* sleep(interval), then the next iteration of the loop
Sleep ==
    /\ pc = "sleep"
    /\ pc' = "resolve"
    /\ idx' = 1
    /\ contacted' = <<>>
    /\ ip_result' = "none"
    /\ current_ip' = <<>>
    /\ last_ip' = <<>>
    /\ attempted' = <<>>
    /\ writes' = 0
    /\ UNCHANGED <<ip_providers, hosts, cache, failed_round>>
    /\ UNCHANGED <<parse_vars, call_vars>>

Next ==
    \/ TryProvider
    \/ ProvidersExhausted
    \/ ReadCache
    \/ UpdateHost
    \/ WriteCache
    \/ Sleep

Spec == Init /\ [][Next]_vars

\* ------------------------------------------- external kill and restart
\* the process is killed between two steps of the loop: its memory is gone,
\* the file stays
Kill ==
    /\ pc \in {"resolve", "read_cache", "update", "sleep"}
    /\ pc' = "killed"
    /\ idx' = 1
    /\ contacted' = <<>>
    /\ ip_result' = "none"
    /\ current_ip' = <<>>
    /\ last_ip' = <<>>
    /\ attempted' = <<>>
    /\ writes' = 0
    /\ UNCHANGED <<ip_providers, hosts, cache, failed_round>>
    /\ UNCHANGED <<parse_vars, call_vars>>

\* the process is killed inside fs::write (line 327), after File::create
\* truncated the file and before write_all wrote every byte
KillDuringWrite ==
    /\ pc = "update"
    /\ idx > Len(hosts)
    /\ cache' \in {<<SubSeq(current_ip, 1, k)>> : k \in 0..(Len(current_ip) - 1)}
    /\ failed_round' = <<>>
    /\ pc' = "killed"
    /\ idx' = 1
    /\ contacted' = <<>>
    /\ ip_result' = "none"
    /\ current_ip' = <<>>
    /\ last_ip' = <<>>
    /\ attempted' = <<>>
    /\ writes' = 0
    /\ UNCHANGED <<ip_providers, hosts>>
    /\ UNCHANGED <<parse_vars, call_vars>>

\* the supervisor starts the program again: main from its first line, with
\* the same environment and the file as the kill left it
Restart ==
    /\ pc = "killed"
    /\ pc' = "resolve"
    /\ UNCHANGED <<ip_providers, hosts, idx, contacted, ip_result, current_ip,
                   last_ip, attempted, cache, writes, failed_round>>
    /\ UNCHANGED <<parse_vars, call_vars>>

NextKill ==
    \/ Next
    \/ Kill
    \/ KillDuringWrite
    \/ Restart

SpecKill == Init /\ [][NextKill]_vars

\* ------------------------------------- the interpreter, event by event
\* documents of at most MaxEvents events of any kind, in any order
EventAlphabet ==
    { Start(ErrCountTag), Start(Err1Tag), Start(DescriptionTag),
      Start(ResponseStringTag), Start(<<"Done">>), End,
      Text(<<"0">>), Text(<<"2">>), Text(<<" ", "bad host">>),
      TextUnescapeErr, Other, ReaderErr("syntax error") }

\* an Err ends the reading
EventDocuments ==
    {d \in SeqsUpTo(EventAlphabet, MaxEvents) :
        \A i \in 1..Len(d) : d[i].type = "Err" => i = Len(d)}

\* documents of at most MaxElements elements <tag>text</tag>
Element(tag, text) == <<Start(tag), Text(text), End>>
TwoPow32 == <<"4", "2", "9", "4", "9", "6", "7", "2", "9", "6">>
Elements ==
    { Element(ErrCountTag, <<"0">>),
      Element(ErrCountTag, <<"2">>),
      Element(ErrCountTag, TwoPow32),
      Element(Err1Tag, <<"bad host">>),
      Element(Err2Tag, <<"bad domain">>),
      Element(DescriptionTag, <<"no", ";", " ", "records">>),
      Element(ResponseStringTag, <<"failed", "\n">>),
      Element(<<"Done">>, <<"true">>) }

Concat(list) ==
    LET upto[k \in 0..Len(list)] ==
            IF k = 0 THEN <<>> ELSE upto[k - 1] \o list[k]
    IN upto[Len(list)]

ElementDocuments == {Concat(l) : l \in SeqsUpTo(Elements, MaxElements)}

\* <ErrCount><Done>true</Done>2</ErrCount>
NestedCountXml ==
    <<Start(ErrCountTag)>> \o Element(<<"Done">>, <<"true">>)
        \o <<Text(<<"2">>), End>>

SampleDocuments == {SuccessXml, FailureXml, MalformedXml, NestedCountXml}

Documents == EventDocuments \cup ElementDocuments \cup SampleDocuments

InitParse ==
    /\ xml \in Documents
    /\ pos = 1
    /\ scan = InitScan
    /\ parse_result = <<>>
    /\ pc = "parse"
    /\ ip_providers = <<>>
    /\ hosts = <<>>
    /\ idx = 1
    /\ contacted = <<>>
    /\ ip_result = "none"
    /\ current_ip = <<>>
    /\ last_ip = <<>>
    /\ attempted = <<>>
    /\ cache = <<>>
    /\ writes = 0
    /\ failed_round = <<>>
    /\ password = DefaultPassword
    /\ log = NoLog

Reading(type) ==
    /\ pc = "parse"
    /\ parse_result = <<>>
    /\ pos <= Len(xml)
    /\ xml[pos].type = type

ReadStart ==
    /\ Reading("Start")
    /\ scan' = OnStart(scan, xml[pos])
    /\ pos' = pos + 1
    /\ UNCHANGED <<xml, parse_result>>
    /\ UNCHANGED <<loop_vars, call_vars>>

ReadText ==
    /\ Reading("Text")
    /\ scan' = OnText(scan, xml[pos])
    /\ pos' = pos + 1
    /\ UNCHANGED <<xml, parse_result>>
    /\ UNCHANGED <<loop_vars, call_vars>>

ReadEnd ==
    /\ Reading("End")
    /\ scan' = OnEnd(scan)
    /\ pos' = pos + 1
    /\ UNCHANGED <<xml, parse_result>>
    /\ UNCHANGED <<loop_vars, call_vars>>

ReadOther ==
    /\ Reading("Other")
    /\ pos' = pos + 1
    /\ UNCHANGED <<xml, scan, parse_result>>
    /\ UNCHANGED <<loop_vars, call_vars>>

ReadErr ==
    /\ Reading("Err")
    /\ parse_result' = <<OnErr(scan, xml[pos])>>
    /\ UNCHANGED <<xml, pos, scan>>
    /\ UNCHANGED <<loop_vars, call_vars>>

ReadEof ==
    /\ pc = "parse"
    /\ parse_result = <<>>
    /\ pos > Len(xml)
    /\ parse_result' = <<Finish(scan)>>
    /\ UNCHANGED <<xml, pos, scan>>
    /\ UNCHANGED <<loop_vars, call_vars>>

NextParse ==
    \/ ReadStart
    \/ ReadText
    \/ ReadEnd
    \/ ReadOther
    \/ ReadErr
    \/ ReadEof

SpecParse == InitParse /\ [][NextParse]_vars

\* ------------------------------- one update call and its log records
\* form_urlencoded::byte_serialize, as append_pair applies it to a value:
\* a space becomes '+', a byte outside [A-Za-z0-9*-._] its percent escape
FormEncodeUnit(u) ==
    IF u = " " THEN "+"
    ELSE IF u = "&" THEN "%26"
    ELSE IF u = "@" THEN "%40"
    ELSE u
FormEncode(s) == [i \in 1..Len(s) |-> FormEncodeUnit(s[i])]

UpdateEndpoint == "https://dynamicdns.park-your-domain.com/update"

\* the query string of lines 188-192
QueryString(host, domain, pass, ip) ==
    <<"host=">> \o FormEncode(host) \o <<"&domain=">> \o FormEncode(domain)
        \o <<"&password=">> \o FormEncode(pass) \o <<"&ip=">> \o FormEncode(ip)

UpdateUrl(host, domain, pass, ip) ==
    <<UpdateEndpoint, "?">> \o QueryString(host, domain, pass, ip)

\* Display of the reqwest::Error of a failed send: the kind of the error
\* and the URL of the request
SendErrorDisplay(url) == <<"error sending request for url (">> \o url \o <<")">>
\* Display of the reqwest::Error of a failed body read
ReadErrorDisplay == <<"error decoding response body">>

\* status.as_u16() and status.canonical_reason()
StatusText(code) ==
    IF code = 200 THEN <<"200", " ", "OK">>
    ELSE <<"500", " ", "Internal Server Error">>

\* &s[..n] for n on a character boundary
SliceTo(s, n) ==
    LET wide == WidePositions(s)
        k == CHOOSE k \in 0..Len(s) : k + Cardinality({i \in wide : i <= k}) = n
    IN SubSeq(s, 1, k)

\* {:?} of a str: quoted, a line feed escaped
DebugUnit(u) == IF u = "\n" THEN "\\n" ELSE u
Debug(s) == <<"\"">> \o [i \in 1..Len(s) |-> DebugUnit(s[i])] \o <<"\"">>

LogRecord(level, text) == [level |-> level, text |-> text]

\* line 323
HostErrorRecord(host, e) ==
    LogRecord("error", <<"Error updating host ">> \o host \o <<": ">> \o e)

\* the records of one update_namecheap call and of main for its result,
\* for the outcome r of the request
UpdateLog(host, domain, pass, ip, r) ==
    IF r.send = "err"
    THEN <<HostErrorRecord(host,
              SendErrorDisplay(UpdateUrl(host, domain, pass, ip)))>>
    ELSE IF r.body = <<>>
    THEN <<HostErrorRecord(host, ReadErrorDisplay)>>
    ELSE LET body == r.body[1]
             parsed == parse_namecheap_response(body.xml)
         IN IF parsed.ok
            THEN (IF UpdatePreviewOk(body)
                  THEN << LogRecord("info",
                            <<"Namecheap DDNS update succeeded: host=">>
                              \o host \o <<", status=">>
                              \o StatusText(r.status)
                              \o <<", body_preview=">>
                              \o Debug(SliceTo(body.raw,
                                    Min(ByteLen(body.raw), UpdatePreviewLen)))),
                          LogRecord("trace",
                            <<"Namecheap full XML response: ">> \o body.raw) >>
                  ELSE <<>>)
            ELSE << LogRecord("error",
                      <<"Namecheap DDNS update FAILED for host=">> \o host
                        \o <<": ">> \o parsed.msg \o <<" (status=">>
                        \o StatusText(r.status)
                        \o <<") → This usually means wrong domain/host/password.">>),
                    LogRecord("trace",
                      <<"Namecheap full XML error response: ">> \o body.raw) >>

\* main has resolved an address that is not the cached one and runs the
\* for loop over config.hosts
InitUpdate ==
    /\ ip_providers = <<>>
    /\ hosts \in HostLists
    /\ pc = "call"
    /\ idx = 1
    /\ contacted = <<>>
    /\ ip_result = "ok"
    /\ current_ip \in {IpA, IpB}
    /\ last_ip = <<>>
    /\ attempted = <<>>
    /\ cache = <<>>
    /\ writes = 0
    /\ failed_round = <<>>
    /\ password \in Passwords
    /\ log = NoLog
    /\ xml = <<>>
    /\ pos = 0
    /\ scan = InitScan
    /\ parse_result = <<>>

\* one iteration of the for loop over config.hosts, with what it logs
UpdateCall ==
    /\ pc = "call"
    /\ idx <= Len(hosts)
    /\ \E r \in UpdateOutcomes :
          /\ log' = [p \in Passwords |->
                        UpdateLog(hosts[idx], ConfigDomain, p, current_ip, r)]
          /\ attempted' = Append(attempted,
                             [host |-> hosts[idx], outcome |-> UpdateOutcome(r)])
          /\ IF UpdateOutcome(r) = "panic"
             THEN pc' = "panicked" /\ UNCHANGED idx
             ELSE idx' = idx + 1 /\ UNCHANGED pc
    /\ UNCHANGED <<ip_providers, hosts, contacted, ip_result, current_ip,
                   last_ip, cache, writes, failed_round, password>>
    /\ UNCHANGED parse_vars

NextUpdate == UpdateCall

SpecUpdate == InitUpdate /\ [][NextUpdate]_vars

\* ------------------------------------------------------------ properties
ContactedUrls == [i \in 1..Len(contacted) |-> contacted[i].url]
AttemptedHosts == [i \in 1..Len(attempted) |-> attempted[i].host]

\* the failures C1 lists: transport error, non-success status, a body that
\* is not an IPv4 address
ListedDiscoveryFailures == {"send_err", "bad_status", "invalid"}

AllFailedUpTo(n) ==
    \A i \in 1..n : contacted[i].kind \in ListedDiscoveryFailures

\* C1: in one get_current_ip call, once the first N endpoints have each
\* failed (transport error, non-success status, invalid body) and the list
\* has an endpoint N+1, the Resolver goes on to contact endpoint N+1; and
\* when endpoint N+1 answers with a valid body the Resolver returns the
\* trimmed body, having contacted endpoints 1..N+1 in list order once each
\* and none after.
C1_FirstValidWins ==
    /\ ( /\ contacted # <<>>
         /\ Len(contacted) < Len(ip_providers)
         /\ AllFailedUpTo(Len(contacted)) )
       => (pc = "resolve" /\ idx = Len(contacted) + 1)
    /\ ( /\ contacted # <<>>
         /\ contacted[Len(contacted)].kind = "valid"
         /\ AllFailedUpTo(Len(contacted) - 1) )
       => /\ ip_result = "ok"
          /\ current_ip = Trim(contacted[Len(contacted)].body)
          /\ ContactedUrls = SubSeq(ip_providers, 1, Len(contacted))
          /\ pc = "read_cache"

\* C2: get_current_ip signals failure only after it has contacted every
\* endpoint of the list exactly once, in list order, whatever the kind of
\* failure of each endpoint.
C2_FailureOnlyAfterAll ==
    ip_result = "err" => ContactedUrls = ip_providers

\* the outcomes of an update call that C3 lists, and the plain success
ListedUpdateOutcomes == {"send_err", "read_err", "malformed", "err_count"}

InUpdateRound ==
    /\ ip_result = "ok"
    /\ pc \in {"update", "sleep", "panicked"}
    /\ last_ip # current_ip

\* C3: in a cycle where the resolved IP differs from the cached IP, the
\* hosts are attempted once each in configured order; after a host ended
\* with a transport error, a body-read error, malformed XML or a nonzero
\* error count (or with a logged success) the loop is at the next host, or,
\* after the last host, has written the cache once; the cache is not
\* written before every host was attempted.
C3_AllHostsThenCache ==
    InUpdateRound =>
       /\ AttemptedHosts = SubSeq(hosts, 1, Len(attempted))
       /\ (writes > 0 => Len(attempted) = Len(hosts))
       /\ (\A i \in 1..Len(attempted) :
              attempted[i].outcome \in ListedUpdateOutcomes \cup {"success"})
          => \/ pc = "update" /\ idx = Len(attempted) + 1 /\ writes = 0
             \/ pc = "sleep" /\ Len(attempted) = Len(hosts) /\ writes = 1

\* the spec's example: two hosts, the first call fails, the second
\* succeeds, the new IP is persisted
C3_Witness ==
    /\ InUpdateRound
    /\ pc = "sleep"
    /\ Len(hosts) = 2
    /\ attempted[1].outcome = "send_err"
    /\ attempted[2].outcome = "success"
    /\ writes = 1
    /\ cache = <<current_ip>>

\* the cycle found no address, or the address of the cache
SkippedCycle ==
    \/ ip_result = "err"
    \/ ip_result = "ok" /\ pc # "read_cache" /\ last_ip = current_ip

\* last_ip is the trimmed content of the cache, or empty when the file is
\* absent or unreadable
LastIpIsTrimmedCache ==
    last_ip \in {<<>>} \cup {Trim(cache[i]) : i \in 1..Len(cache)}

\* C4: in a cycle where get_current_ip fails or the resolved IP equals the
\* trimmed cached IP, the loop makes no update call and no cache write and
\* is at the sleep; the cache changes in no step of a cycle that has made
\* no write, and the cached IP of the comparison is the trimmed cache.
C4_SkippedCycleTouchesNothing ==
    [][ /\ (writes' = 0 => cache' = cache /\ LastIpIsTrimmedCache')
        /\ (SkippedCycle' =>
               pc' = "sleep" /\ attempted' = <<>> /\ writes' = 0) ]_vars

\* an unchanged cycle whose cache holds the address followed by a newline
C4_Witness ==
    /\ pc = "sleep"
    /\ ip_result = "ok"
    /\ last_ip = current_ip
    /\ cache = <<current_ip \o <<"\n">>>>

\* C10: no error is fatal to the loop; whatever the outcomes of the update
\* calls of a cycle (any status, any body content), the process is not
\* ended by them and the cycle goes on to its sleep.
C10_NoUpdateOutcomeIsFatal ==
    ~(pc = "panicked" /\ attempted # <<>>)

\* ----------------------------------------- properties of the interpreter
Returned == pc = "parse" /\ parse_result # <<>>
Result == parse_result[1]
WellFormed(d) == \A i \in 1..Len(d) : d[i].type # "Err"

IsNumeral(t) == t # <<>> /\ \A i \in 1..Len(t) : t[i] \in DigitSet
IsPositiveNumeral(t) == IsNumeral(t) /\ \E i \in 1..Len(t) : t[i] # "0"

EventText(e) == Trim(IF e.content = <<>> THEN <<>> ELSE e.content[1])

\* the document has one ErrCount element, <ErrCount>text</ErrCount>
ErrCountStarts(d) == {i \in 1..Len(d) : d[i] = Start(ErrCountTag)}
SingleErrCount(d) ==
    /\ Cardinality(ErrCountStarts(d)) = 1
    /\ LET i == CHOOSE i \in ErrCountStarts(d) : TRUE
       IN /\ i + 2 <= Len(d)
          /\ d[i + 1].type = "Text"
          /\ d[i + 2].type = "End"
DeclaredCount(d) ==
    EventText(d[(CHOOSE i \in ErrCountStarts(d) : TRUE) + 1])

\* C5: a well-formed response whose ErrCount field declares a positive
\* count is classified Failure.
C5_PositiveCountIsFailure ==
    ( /\ Returned
      /\ WellFormed(xml)
      /\ SingleErrCount(xml)
      /\ IsPositiveNumeral(DeclaredCount(xml)) )
    => ~Result.ok

\* the tag that classifies the text at event i: the name of the nearest
\* start tag before i, unless an end tag lies between
GoverningTag(d, i) ==
    LET tags == {j \in 1..(i - 1) : d[j].type \in {"Start", "End"}}
    IN IF tags = {} THEN <<>>
       ELSE LET j == CHOOSE j \in tags : \A k \in tags : j >= k
            IN IF d[j].type = "Start" THEN <<d[j].name>> ELSE <<>>

\* the non-empty trimmed texts of d whose governing tag satisfies Is, in
\* document order
TextsUnder(d, Is(_)) ==
    LET at == SelectSeq([i \in 1..Len(d) |-> i],
                  LAMBDA i : /\ d[i].type = "Text"
                             /\ EventText(d[i]) # <<>>
                             /\ GoverningTag(d, i) # <<>>
                             /\ Is(GoverningTag(d, i)[1]))
    IN [k \in 1..Len(at) |-> EventText(d[at[k]])]

IsErrFamily(tag) == starts_with(tag, <<"Err">>) /\ tag # ErrCountTag
IsDescription(tag) == tag = DescriptionTag
IsResponseString(tag) == tag = ResponseStringTag
IsErrCount(tag) == tag = ErrCountTag

ExpectedMessages(d) ==
    TextsUnder(d, IsErrFamily) \o TextsUnder(d, IsDescription)
        \o TextsUnder(d, IsResponseString)

\* the effective error count of d: the last ErrCount text that is a u32,
\* <<>> when there is none
EffectiveCount(d) ==
    LET parsed == SelectSeq(TextsUnder(d, IsErrCount),
                            LAMBDA t : ParseU32(t) # <<>>)
    IN IF parsed = <<>> THEN <<>> ELSE ParseU32(parsed[Len(parsed)])

\* C6: a well-formed response whose effective error count is zero (the last
\* parsed ErrCount is 0, or none was parsed) is classified Success, also
\* when Err*, Description or ResponseString texts are present.
C6_ZeroCountIsSuccess ==
    ( /\ Returned
      /\ WellFormed(xml)
      /\ EffectiveCount(xml) \in {<<>>, <<Zero>>} )
    => Result = Ok

\* <ErrCount>0</ErrCount> with a message text present, classified Success
C6_Witness ==
    /\ Returned
    /\ Result = Ok
    /\ EffectiveCount(xml) = <<Zero>>
    /\ ExpectedMessages(xml) # <<>>

CountFailure ==
    Returned /\ WellFormed(xml) /\ ~Result.ok

C8_FailureIsExplained ==
    (Returned /\ ~Result.ok) =>
       /\ Result.msg # <<>>
       /\ (WellFormed(xml) /\ ExpectedMessages(xml) = <<>>)
          => /\ EffectiveCount(xml) \notin {<<>>, <<Zero>>}
             /\ Result.msg = <<NoMessagesPrefix>> \o EffectiveCount(xml)[1]
                                \o <<NoMessagesSuffix>>

\* <ErrCount>2</ErrCount> and no message tag
C8_Witness ==
    /\ Returned
    /\ xml = Element(ErrCountTag, <<"2">>)
    /\ Result = Failure(<<NoMessagesPrefix, "2", NoMessagesSuffix>>)

FirstOccurrences(list) ==
    LET keep == SelectSeq([i \in 1..Len(list) |-> i],
                    LAMBDA i : \A j \in 1..(i - 1) : list[j] # list[i])
    IN [k \in 1..Len(keep) |-> list[keep[k]]]

\* C14: the endpoint list of the configuration has no empty entry and no
\* duplicate and keeps the first occurrences of the configured entries in
\* their order; no endpoint URL is contacted twice in one resolution.
C14_EndpointsAreDistinct ==
    /\ ip_providers \in {FirstOccurrences(list) : list \in ProviderLists}
    /\ \A i \in 1..Len(ip_providers) : ip_providers[i] # <<>>
    /\ \A i, j \in 1..Len(ip_providers) :
          i < j => ip_providers[i] # ip_providers[j]
    /\ \A i, j \in 1..Len(contacted) :
          i < j => contacted[i].url # contacted[j].url

\* C15: a success-status body that is not a valid IPv4 address, whatever
\* its length and content, is answered with a warning and the next
\* endpoint: the Resolver is at the endpoint after it (or has signalled
\* failure after the last one), and never aborts on building the preview.
C15_InvalidBodyIsSkipped ==
    (contacted # <<>> /\ contacted[Len(contacted)].kind = "invalid")
    => /\ pc \in {"resolve", "sleep"}
       /\ idx = Len(contacted) + 1

\* ------------------------------------------------------ the error count
\* the events the reader has delivered so far
Scanned == SubSeq(xml, 1, pos - 1)

\* C16: a positive decimal ErrCount of any magnitude is kept as the count
\* it denotes and the response is classified Failure; it is never read as
\* zero or as unparsable because of its width.
C16_CountKeepsItsMagnitude ==
    ( /\ Returned
      /\ WellFormed(xml)
      /\ SingleErrCount(xml)
      /\ IsPositiveNumeral(DeclaredCount(xml)) )
    => /\ scan.err_count = <<StripLeadingZeros(DeclaredCount(xml))>>
       /\ ~Result.ok

\* C17: the effective count is the last ErrCount text that parsed as a u32,
\* none when no text did; an ErrCount text that does not parse neither
\* changes the count nor joins the error messages; a well-formed response
\* in which no ErrCount text parses is Success, message texts or not.
C17_LastParsedCountGoverns ==
    pc = "parse" =>
       /\ scan.err_count = EffectiveCount(Scanned)
       /\ scan.errors = TextsUnder(Scanned, IsErrFamily)
       /\ (Returned /\ WellFormed(xml) /\ EffectiveCount(xml) = <<>>)
          => Result = Ok

\* <ErrCount>2 bad host: the text that does not parse leaves the count 2
\* and the error messages empty
C17_Witness ==
    /\ Returned
    /\ xml = <<Start(ErrCountTag), Text(<<"2">>), Text(<<" ", "bad host">>)>>
    /\ scan.err_count = <<<<"2">>>>
    /\ scan.errors = <<>>
    /\ ~Result.ok

\* C20: the cursor is the name of the most recent start tag when no end tag
\* came after it, and empty otherwise; each text is classified by the
\* cursor alone, so a text after a closed child element is classified by
\* no tag and a text inside a child element by the child's name.
C20_CursorIsLastOpenTag ==
    pc = "parse" =>
       /\ scan.current_tag = GoverningTag(xml, pos)
       /\ scan.err_count = EffectiveCount(Scanned)
       /\ scan.descriptions = TextsUnder(Scanned, IsDescription)
       /\ scan.response_strings = TextsUnder(Scanned, IsResponseString)

\* <ErrCount><Done>true</Done>2</ErrCount>: the 2 after the closed child is
\* not counted
C20_Witness ==
    /\ Returned
    /\ xml = NestedCountXml
    /\ scan.err_count = <<>>
    /\ Result = Ok

\* ------------------------------------------------- properties of the cache
\* C11: the cache changes only by the write at the end of an update round
\* in which every configured host was attempted, and the content it
\* receives is the address resolved in that cycle, a valid IPv4 address;
\* it never receives another value.
C11_CacheReceivesResolvedAddress ==
    [][cache' # cache =>
          /\ pc = "update"
          /\ ip_result = "ok"
          /\ AttemptedHosts = hosts
          /\ looks_like_ipv4(current_ip)
          /\ cache' = <<current_ip>>]_vars

\* C18: a cache write that fails is only logged: the cycle goes on to the
\* sleep and the cache keeps the content it had before the write.
C18_FailedWriteKeepsCache ==
    [][writes' = writes + 1 =>
          /\ pc' = "sleep"
          /\ cache' \in {<<current_ip>>, cache}]_vars

\* C19: after a round in which an update call failed and whose cache write
\* succeeded, a later cycle that resolves the same address runs no update
\* call while the cache can be read; only a cache that is lost or a
\* different address brings a new round.
C19_FailedUpdateNotRetried ==
    (ip_result = "ok" /\ failed_round = <<current_ip>>)
    => \/ pc = "read_cache"
       \* the round that failed, after its write
       \/ pc = "sleep" /\ writes = 1 /\ SomeUpdateFailed
       \* a later cycle: unchanged, no update call
       \/ pc = "sleep" /\ writes = 0 /\ attempted = <<>> /\ last_ip = current_ip
       \* a later cycle that could not read the cache
       \/ pc \in {"update", "panicked"} /\ last_ip = <<>>

\* a later cycle resolves the address of the failed round and skips the
\* update round
C19_Witness ==
    /\ failed_round = <<current_ip>>
    /\ ip_result = "ok"
    /\ pc = "sleep"
    /\ last_ip = current_ip
    /\ attempted = <<>>
    /\ writes = 0

\* C13: at the instant of a kill the cache holds in full the value it held
\* before the step the kill interrupts, or the newly resolved address;
\* never an empty or a partial value.
C13_KillLeavesWholeValue ==
    [][pc' = "killed" => cache' \in {cache, <<current_ip>>}]_vars

\* ---------------------------------------------------- properties of the log
DefaultLevel(records) == SelectSeq(records, LAMBDA rec : rec.level # "trace")

Contains(text, part) ==
    \E i \in 1..(Len(text) - Len(part) + 1) :
        SubSeq(text, i, i + Len(part) - 1) = part

\* C12: the info, warn and error records of an update call are the same in
\* runs that differ only in the password, for every outcome of the call;
\* no such record holds the password or the query string of the request.
C12_LogIndependentOfPassword ==
    /\ \A p, q \in Passwords : DefaultLevel(log[p]) = DefaultLevel(log[q])
    /\ \A i \in 1..Len(DefaultLevel(log[password])) :
          ~Contains(DefaultLevel(log[password])[i].text, FormEncode(password))

====
